---- MODULE Spec2Model ----
(***************************************************************************)
(* The NoWorkspace onboarding wizard (src/src/pages/NoWorkspace.tsx) and   *)
(* the workspace provisioner (src/src/services/workspace.service.ts) as a  *)
(* state machine.                                                          *)
(*                                                                         *)
(* Text is a tuple of one-character strings, so that trim, the phone      *)
(* pattern and the slug derivation are computed character by character.   *)
(* A precomposed accented letter is written as its base letter followed   *)
(* by "~" inside one token ("a~" is U+00E3, "A~" is U+00C3); the          *)
(* combining mark itself is the token "U+0303".                           *)
(* A JavaScript object is a record carrying t = "obj"; null and undefined *)
(* are the record Null; an absent property is a field outside DOMAIN.     *)
(*                                                                         *)
(* Spec is the wizard: identity, steps, drafts and network calls.         *)
(* FnSpec evaluates the module-level functions (looksLikePhone, toSlug,   *)
(* bindCommand, createWorkspace) on bounded sets of arguments.            *)
(* CopySpec takes the wizard of a named identity from its construction to *)
(* the success step and adds the copy button with its timeouts; the copy  *)
(* handler reads createdWorkspace and writes no state of the wizard, and  *)
(* no other handler reads or writes what it writes.                       *)
(* ExitSpec is the whole wizard with the sign-out button, one value per   *)
(* text field.                                                            *)
(* ChatSpec is the status switch of the ManageChats page                  *)
(* (src/unnamed/part_002): the list shown, the list the server holds and  *)
(* the requests in flight.                                                *)
(***************************************************************************)
EXTENDS Integers, Sequences, FiniteSets, TLC

VARIABLES
    user,             \* identity published by the auth context (useAuth().user)
    stored,           \* local identity cache (tokenService.getUser / setUser)
    step,             \* useState<Step>
    displayName,      \* useState('')
    workspaceName,    \* useState('')
    workspaceSlug,    \* useState('')
    slugEdited,       \* useState(false)
    createdWorkspace, \* useState<CreatedWorkspace | null>(null)
    isSubmitting,     \* useState(false)
    isFinishing,      \* useState(false)
    error,            \* useState<string | null>(null)
    effectPending,    \* the [user] effect of the last render has not run yet
    calls,            \* network calls issued by the wizard and not yet answered
    location,         \* the route shown; Wizard until navigate() is called
    lastEvent,        \* the handler or callback that produced this state
    fnName,           \* the function evaluated on its own, "none" in the wizard
    fnArg,            \* its argument
    fnOut,            \* its result, once fnDone
    fnDone,           \* the function has been applied to fnArg
    isCopied,         \* useState(false)
    writes,           \* navigator.clipboard.writeText calls not yet settled
    clipboard,        \* text on the system clipboard
    textareas,        \* textarea elements attached to document.body
    timers,           \* pending setTimeout callbacks, as ms left, oldest first
    sinceCopy,        \* ms since the copy action last set the flag, capped
    chats,            \* ManageChats useState<Chat[]>: status shown per chat id
    serverChats,      \* status the server holds per chat id
    toggles,          \* activate/deactivate requests not yet answered
    chatEvent         \* the ManageChats handler or callback that ran last

wizardVars == <<user, stored, step, displayName, workspaceName, workspaceSlug,
                slugEdited, createdWorkspace, isSubmitting, isFinishing, error,
                effectPending, calls, location, lastEvent>>

fnVars == <<fnName, fnArg, fnOut, fnDone>>

copyVars == <<isCopied, writes, clipboard, textareas, timers, sinceCopy>>

\* what no handler of the wizard other than handleCopyCommand reads or writes
chatVars == <<chats, serverChats, toggles, chatEvent>>

offWizard == <<fnVars, copyVars, chatVars>>

vars == <<wizardVars, offWizard>>

\* ------------------------------------------------------------------ bounds

\* Copy actions that may be unfinished (clipboard write not settled, or
\* timeout not yet run) together before the model stops starting new ones
MaxCopies == 2

\* Longest stretch of time, in ms, that passes in one step
TickMs == 500

\* Network calls that may be outstanding together before the model stops
\* issuing more (the code itself has no such limit).
MaxOutstanding == 3

\* ------------------------------------------------------------------ values

Null == [t |-> "null"]
NoText == "<none>"

Wizard == "(wizard)"

Digit == {"0", "1", "2", "3", "4", "5", "6", "7", "8", "9"}
LowerAZ == <<"a", "b", "c", "d", "e", "f", "g", "h", "i", "j", "k", "l", "m",
             "n", "o", "p", "q", "r", "s", "t", "u", "v", "w", "x", "y", "z">>
UpperAZ == <<"A", "B", "C", "D", "E", "F", "G", "H", "I", "J", "K", "L", "M",
             "N", "O", "P", "Q", "R", "S", "T", "U", "V", "W", "X", "Y", "Z">>
Range(s) == {s[i] : i \in DOMAIN s}
WhiteSpace == {" ", "\t"}
CombiningMarks == {"U+0303"}

\* ------------------------------------------------------------------ text

RECURSIVE TrimLeft(_)
TrimLeft(s) ==
    IF s # <<>> /\ Head(s) \in WhiteSpace THEN TrimLeft(Tail(s)) ELSE s

RECURSIVE TrimRight(_)
TrimRight(s) ==
    IF s # <<>> /\ s[Len(s)] \in WhiteSpace
    THEN TrimRight(SubSeq(s, 1, Len(s) - 1))
    ELSE s

\* String.prototype.trim
Trim(s) == TrimRight(TrimLeft(s))

\* String.prototype.toLowerCase, one character
LowerChar(c) ==
    IF c \in Range(UpperAZ)
    THEN LowerAZ[CHOOSE i \in DOMAIN UpperAZ : UpperAZ[i] = c]
    ELSE IF c = "A~" THEN "a~" ELSE c

\* String.prototype.normalize('NFD'), one character
Decompose(c) ==
    IF c = "a~" THEN <<"a", "U+0303">>
    ELSE IF c = "A~" THEN <<"A", "U+0303">>
    ELSE <<c>>

ToLowerCase(s) == [i \in DOMAIN s |-> LowerChar(s[i])]

\* NormalizeNFD left out
NormalizeNFD_Skipped(s) == s

RECURSIVE NormalizeNFD(_)
NormalizeNFD(s) ==
    IF s = <<>> THEN <<>> ELSE Decompose(Head(s)) \o NormalizeNFD(Tail(s))

\* replace(/[U+0300-U+036F]/g, '')
StripMarks(s) == SelectSeq(s, LAMBDA c : c \notin CombiningMarks)

SlugChar(c) == c \in Range(LowerAZ) \/ c \in Digit \/ c \in WhiteSpace \/ c = "-"

\* KeepSlugChars putting a hyphen where it deletes
KeepSlugChars_Hyphenates(s) ==
    [i \in DOMAIN s |-> IF SlugChar(s[i]) THEN s[i] ELSE "-"]

\* replace(/[^a-z0-9\s-]/g, '')
KeepSlugChars(s) == SelectSeq(s, SlugChar)

\* replace(/\s+/g, '-')
RECURSIVE HyphenateSpaces(_)
HyphenateSpaces(s) ==
    IF s = <<>> THEN <<>>
    ELSE IF Head(s) \in WhiteSpace
         THEN <<"-">> \o HyphenateSpaces(TrimLeft(s))
         ELSE <<Head(s)>> \o HyphenateSpaces(Tail(s))

toSlug(value) ==
    HyphenateSpaces(Trim(KeepSlugChars(StripMarks(NormalizeNFD(ToLowerCase(value))))))

PhoneTail == Digit \cup WhiteSpace \cup {"-", "(", ")", "."}

\* the {6,} of the phone pattern
PhoneTailMin == 6

\* /^\+?\d[\d\s\-().]{6,}$/ on the trimmed text
MatchesPhone(t) ==
    LET r == IF t # <<>> /\ Head(t) = "+" THEN Tail(t) ELSE t
    IN  /\ Len(r) >= 1 + PhoneTailMin
        /\ r[1] \in Digit
        /\ \A i \in 2..Len(r) : r[i] \in PhoneTail

\* looksLikePhone without the trim
looksLikePhone_NoTrim(name) == MatchesPhone(name)

looksLikePhone(name) == MatchesPhone(Trim(name))

\* ------------------------------------------------------------------ objects

EmptyObj == [t |-> "obj"]

\* x ?? {}
OrEmpty(x) == IF x = Null THEN EmptyObj ELSE x

\* { ...a, ...b }
Spread(a, b) ==
    [f \in DOMAIN a \cup DOMAIN b |-> IF f \in DOMAIN b THEN b[f] ELSE a[f]]

\* user.name, with undefined read as the '' that name?.trim() ?? '' makes of it
NameOf(u) == IF "name" \in DOMAIN u THEN u.name ELSE <<>>

\* the condition of the [user] effect:
\* user && !looksLikePhone(user.name) && user.name?.trim()
NameUsable(u) ==
    /\ u # Null
    /\ ~looksLikePhone(NameOf(u))
    /\ Trim(NameOf(u)) # <<>>

Truthy(s) == s \notin {NoText, ""}

\* ------------------------------------------------------------------ inputs

T_Maria == <<"M", "a", "r", "i", "a", " ", "S", "i", "l", "v", "a">>
T_Phone == <<"1", "1", "9", "9", "1", "2", "3", "4", "5", "6", "7">>
T_Blank == <<" ", " ">>
T_Carlos == <<" ", "C", "a", "r", "l", "o", "s">>
T_SaoFC == <<"S", "a~", "o", " ", " ", "F", "C", "!">>
T_MeuSlug == <<"M", "e", "u", " ", "1">>
T_W1 == <<"w", "1">>
T_Pelada == <<"p", "e", "l", "a", "d", "a">>
R_User == <<"u", "s", "e", "r">>
R_Admin == <<"A", "d", "m", "i", "n">>
R_Owner == <<"o", "w", "n", "e", "r">>

\* identities the auth context may hold or publish
Identities ==
    { [t |-> "obj", id |-> "u1", name |-> T_Phone, role |-> R_User],
      [t |-> "obj", id |-> "u1", name |-> T_Maria, role |-> R_Admin],
      [t |-> "obj", id |-> "u1", role |-> R_Owner] }

\* maxLength of the display-name and workspace-name inputs
NameMaxLength == 60

\* maxLength of the workspace-slug input
SlugMaxLength == 40

\* a name that fits its input and is longer than the slug input allows
T_LongName == [i \in 1..(SlugMaxLength + 1) |-> "a"]

\* what the user may type into a field (every field starts empty)
DisplayNames == {T_Blank, T_Carlos, T_Phone}
WorkspaceNames == {T_Blank, T_SaoFC, T_LongName}
SlugInputs == {<<>>, T_MeuSlug}

\* what the identity endpoint may answer to a name save
SaveResponses ==
    { Null,
      [t |-> "obj", name |-> T_Phone, role |-> R_Admin, phone |-> T_Phone] }

W1 == [t |-> "obj", id |-> T_W1, name |-> T_SaoFC, slug |-> T_Pelada, role |-> R_Owner]

\* response bodies of POST /workspaces
CreateBodies ==
    { W1, [t |-> "obj", data |-> W1], Null }

\* what a rejected call carries: err.response.data.message and err.message
Errors ==
    { [serverMsg |-> "nome ja em uso", message |-> "Request failed with status code 409"],
      [serverMsg |-> "", message |-> "Request failed with status code 409"],
      [serverMsg |-> NoText, message |-> "Network Error"],
      [serverMsg |-> NoText, message |-> NoText] }

\* the TypeError of reading .data of a null body
NullBodyError ==
    [serverMsg |-> NoText,
     message |-> "Cannot read properties of null (reading 'data')"]

SaveFallback == "Erro ao salvar o nome. Tente novamente."
CreateFallback == "Ocorreu um erro ao criar o workspace. Tente novamente."

AdminDashboard == "/admin/dashboard"
UserDashboard == "/user/dashboard"
Login == "/login"

\* ------------------------------------------------------------------ helpers

Mounted == location = Wizard

Remove(q, i) == SubSeq(q, 1, i - 1) \o SubSeq(q, i + 1, Len(q))

\* ErrorMessage with the first two operands swapped
ErrorMessage_OwnFirst(err, fallback) ==
    IF Truthy(err.message) THEN err.message
    ELSE IF Truthy(err.serverMsg) THEN err.serverMsg
    ELSE fallback

\* err?.response?.data?.message || err?.message || fallback
ErrorMessage(err, fallback) ==
    IF Truthy(err.serverMsg) THEN err.serverMsg
    ELSE IF Truthy(err.message) THEN err.message
    ELSE fallback

\* Unwrap without the ?? fallback: return data.data
Unwrap_NoFallback(data) ==
    IF "data" \in DOMAIN data THEN data.data ELSE Null

\* data.data ?? data
Unwrap(data) ==
    IF "data" \in DOMAIN data /\ data.data # Null THEN data.data ELSE data

\* createWorkspace, from the response body on: reading data.data of a null
\* body throws, anything else is returned unwrapped
createWorkspace(body) ==
    IF body = Null
    THEN [ok |-> FALSE, err |-> NullBodyError]
    ELSE [ok |-> TRUE, value |-> Unwrap(body)]

\* the '/bind ' of the template literal
BindPrefix == <<"/", "b", "i", "n", "d", " ">>

\* what a template literal prints for undefined
T_Undefined == <<"u", "n", "d", "e", "f", "i", "n", "e", "d">>

\* SlugOrId keeping an empty slug (?? in place of ||)
SlugOrId_Nullish(w) ==
    IF "slug" \in DOMAIN w THEN w.slug
    ELSE IF "id" \in DOMAIN w THEN w.id
    ELSE T_Undefined

\* ${createdWorkspace.slug || createdWorkspace.id}
SlugOrId(w) ==
    IF "slug" \in DOMAIN w /\ w.slug # <<>> THEN w.slug
    ELSE IF "id" \in DOMAIN w THEN w.id
    ELSE T_Undefined

\* createdWorkspace ? `/bind ${...}` : ''
bindCommand(w) == IF w # Null THEN BindPrefix \o SlugOrId(w) ELSE <<>>

\* disabled={isSubmitting || !displayName.trim()}
SaveDisabled == isSubmitting \/ Trim(displayName) = <<>>

\* CreateDisabled without the isSubmitting operand
CreateDisabled_NoFlag == Trim(workspaceName) = <<>>

\* disabled={isSubmitting || !workspaceName.trim()}
CreateDisabled == isSubmitting \/ Trim(workspaceName) = <<>>

\* ------------------------------------------------------------------ state

\* no function is being evaluated on its own
FnIdle ==
    /\ fnName = "none"
    /\ fnArg = <<>>
    /\ fnOut = <<>>
    /\ fnDone = FALSE

\* the wizard after construction, before its first effect has run
FreshWizard ==
    /\ user \in {Null} \cup Identities
    /\ stored = user
    /\ step = "profile"
    /\ displayName = <<>>
    /\ workspaceName = <<>>
    /\ workspaceSlug = <<>>
    /\ slugEdited = FALSE
    /\ createdWorkspace = Null
    /\ isSubmitting = FALSE
    /\ isFinishing = FALSE
    /\ error = NoText
    /\ effectPending = TRUE
    /\ calls = <<>>
    /\ location = Wizard
    /\ lastEvent = [op |-> "mount"]

\* the delay given to setTimeout
CopiedDelay == 2500

\* nothing has been copied yet
CopyIdle ==
    /\ isCopied = FALSE
    /\ writes = <<>>
    /\ clipboard = <<>>
    /\ textareas = 0
    /\ timers = <<>>
    /\ sinceCopy = CopiedDelay

\* the ManageChats page is not open
ChatIdle ==
    /\ chats = <<>>
    /\ serverChats = <<>>
    /\ toggles = <<>>
    /\ chatEvent = [op |-> "none"]

Init == FreshWizard /\ FnIdle /\ CopyIdle /\ ChatIdle

\* useEffect(..., [user]): runs after the first render and after every render
\* in which the published identity changed
RunEffect ==
    /\ Mounted
    /\ effectPending
    /\ effectPending' = FALSE
    /\ step' = IF NameUsable(user) THEN "form" ELSE step
    /\ lastEvent' = [op |-> "effect"]
    /\ UNCHANGED offWizard
    /\ UNCHANGED <<user, stored, displayName, workspaceName, workspaceSlug,
                   slugEdited, createdWorkspace, isSubmitting, isFinishing,
                   error, calls, location>>

\* the auth context publishes another identity object
IdentityUpdate(u) ==
    /\ Mounted
    /\ ~effectPending
    /\ user' = u
    /\ effectPending' = TRUE
    /\ lastEvent' = [op |-> "identityUpdate"]
    /\ UNCHANGED offWizard
    /\ UNCHANGED <<stored, step, displayName, workspaceName, workspaceSlug,
                   slugEdited, createdWorkspace, isSubmitting, isFinishing,
                   error, calls, location>>

\* onChange={(e) => setDisplayName(e.target.value)}, disabled={isSubmitting}
ChangeDisplayName(v) ==
    /\ Mounted /\ ~effectPending
    /\ step = "profile"
    /\ ~isSubmitting
    /\ Len(v) <= NameMaxLength
    /\ displayName' = v
    /\ lastEvent' = [op |-> "changeDisplayName"]
    /\ UNCHANGED offWizard
    /\ UNCHANGED <<user, stored, step, workspaceName, workspaceSlug, slugEdited,
                   createdWorkspace, isSubmitting, isFinishing, error,
                   effectPending, calls, location>>

\* handleNameChange recomputing the slug whether or not it was edited
handleNameChange_AlwaysDerives(name) ==
    /\ Mounted /\ ~effectPending
    /\ step = "form"
    /\ ~isSubmitting
    /\ Len(name) <= NameMaxLength
    /\ workspaceName' = name
    /\ workspaceSlug' = toSlug(name)
    /\ lastEvent' = [op |-> "handleNameChange"]
    /\ UNCHANGED offWizard
    /\ UNCHANGED <<user, stored, step, displayName, slugEdited, createdWorkspace,
                   isSubmitting, isFinishing, error, effectPending, calls,
                   location>>

\* handleNameChange leaving the slug alone
handleNameChange_NeverDerives(name) ==
    /\ Mounted /\ ~effectPending
    /\ step = "form"
    /\ ~isSubmitting
    /\ Len(name) <= NameMaxLength
    /\ workspaceName' = name
    /\ workspaceSlug' = workspaceSlug
    /\ lastEvent' = [op |-> "handleNameChange"]
    /\ UNCHANGED offWizard
    /\ UNCHANGED <<user, stored, step, displayName, slugEdited, createdWorkspace,
                   isSubmitting, isFinishing, error, effectPending, calls,
                   location>>

handleNameChange(name) ==
    /\ Mounted /\ ~effectPending
    /\ step = "form"
    /\ ~isSubmitting
    /\ Len(name) <= NameMaxLength
    /\ workspaceName' = name
    /\ workspaceSlug' = IF ~slugEdited THEN toSlug(name) ELSE workspaceSlug
    /\ lastEvent' = [op |-> "handleNameChange"]
    /\ UNCHANGED offWizard
    /\ UNCHANGED <<user, stored, step, displayName, slugEdited, createdWorkspace,
                   isSubmitting, isFinishing, error, effectPending, calls,
                   location>>

handleSlugChange(value) ==
    /\ Mounted /\ ~effectPending
    /\ step = "form"
    /\ ~isSubmitting
    /\ Len(value) <= SlugMaxLength
    /\ slugEdited' = TRUE
    /\ workspaceSlug' = toSlug(value)
    /\ lastEvent' = [op |-> "handleSlugChange"]
    /\ UNCHANGED offWizard
    /\ UNCHANGED <<user, stored, step, displayName, workspaceName,
                   createdWorkspace, isSubmitting, isFinishing, error,
                   effectPending, calls, location>>

\* handleSaveName up to its await; the form is submitted through the submit
\* button, which the profile step renders with disabled={SaveDisabled}
handleSaveName ==
    /\ Mounted /\ ~effectPending
    /\ step = "profile"
    /\ ~SaveDisabled
    /\ Trim(displayName) # <<>>
    /\ Len(calls) < MaxOutstanding
    /\ isSubmitting' = TRUE
    /\ error' = NoText
    /\ calls' = Append(calls, [kind |-> "save", name |-> Trim(displayName)])
    /\ lastEvent' = [op |-> "handleSaveName"]
    /\ UNCHANGED offWizard
    /\ UNCHANGED <<user, stored, step, displayName, workspaceName, workspaceSlug,
                   slugEdited, createdWorkspace, isFinishing, effectPending,
                   location>>

\* { ...(stored ?? {}), ...(updatedProfile ?? {}), name: displayName.trim() }
\* MergedIdentity with the two spreads in the other order
MergedIdentity_CacheWins(cached, updatedProfile, name) ==
    Spread(Spread(OrEmpty(updatedProfile), OrEmpty(cached)),
           [name |-> name])

MergedIdentity(cached, updatedProfile, name) ==
    Spread(Spread(OrEmpty(cached), OrEmpty(updatedProfile)),
           [name |-> name])

\* authAPI.updateAuthProfile resolved: the try block after the await, finally
SaveResolve(i, updatedProfile) ==
    /\ i \in DOMAIN calls
    /\ calls[i].kind = "save"
    /\ LET merged == MergedIdentity(stored, updatedProfile, calls[i].name)
       IN  /\ stored' = merged
           /\ user' = merged
    /\ effectPending' = Mounted
    /\ step' = "form"
    /\ isSubmitting' = FALSE
    /\ calls' = Remove(calls, i)
    /\ lastEvent' = [op |-> "saveResolve", resp |-> updatedProfile]
    /\ UNCHANGED offWizard
    /\ UNCHANGED <<displayName, workspaceName, workspaceSlug, slugEdited,
                   createdWorkspace, isFinishing, error, location>>

\* SaveReject with setStep('form') moved into the finally block
SaveReject_Advances(i, err) ==
    /\ i \in DOMAIN calls
    /\ calls[i].kind = "save"
    /\ error' = ErrorMessage(err, SaveFallback)
    /\ step' = "form"
    /\ isSubmitting' = FALSE
    /\ calls' = Remove(calls, i)
    /\ lastEvent' = [op |-> "saveReject", err |-> err]
    /\ UNCHANGED offWizard
    /\ UNCHANGED <<user, stored, displayName, workspaceName, workspaceSlug,
                   slugEdited, createdWorkspace, isFinishing, effectPending,
                   location>>

\* SaveReject with the input reset in the catch block
SaveReject_ClearsInput(i, err) ==
    /\ i \in DOMAIN calls
    /\ calls[i].kind = "save"
    /\ error' = ErrorMessage(err, SaveFallback)
    /\ displayName' = <<>>
    /\ isSubmitting' = FALSE
    /\ calls' = Remove(calls, i)
    /\ lastEvent' = [op |-> "saveReject", err |-> err]
    /\ UNCHANGED offWizard
    /\ UNCHANGED <<user, stored, step, workspaceName, workspaceSlug,
                   slugEdited, createdWorkspace, isFinishing, effectPending,
                   location>>

\* authAPI.updateAuthProfile rejected: catch, finally
SaveReject(i, err) ==
    /\ i \in DOMAIN calls
    /\ calls[i].kind = "save"
    /\ error' = ErrorMessage(err, SaveFallback)
    /\ isSubmitting' = FALSE
    /\ calls' = Remove(calls, i)
    /\ lastEvent' = [op |-> "saveReject", err |-> err]
    /\ UNCHANGED offWizard
    /\ UNCHANGED <<user, stored, step, displayName, workspaceName, workspaceSlug,
                   slugEdited, createdWorkspace, isFinishing, effectPending,
                   location>>

\* slug: workspaceSlug || undefined
SlugPayload(slug) == IF slug = <<>> THEN [t |-> "obj"] ELSE [t |-> "obj", slug |-> slug]

\* handleCreateWorkspace with workspaceName tested without trim(), in the
\* handler and in the button
handleCreateWorkspace_NoTrim ==
    /\ Mounted /\ ~effectPending
    /\ step = "form"
    /\ ~isSubmitting
    /\ workspaceName # <<>>
    /\ Len(calls) < MaxOutstanding
    /\ isSubmitting' = TRUE
    /\ error' = NoText
    /\ calls' = Append(calls, [kind |-> "create",
                               payload |-> Spread(SlugPayload(workspaceSlug),
                                                  [name |-> Trim(workspaceName)])])
    /\ lastEvent' = [op |-> "handleCreateWorkspace"]
    /\ UNCHANGED offWizard
    /\ UNCHANGED <<user, stored, step, displayName, workspaceName, workspaceSlug,
                   slugEdited, createdWorkspace, isFinishing, effectPending,
                   location>>

\* handleCreateWorkspace up to its await; the form is submitted through the
\* submit button, which the form step renders with disabled={CreateDisabled}
handleCreateWorkspace ==
    /\ Mounted /\ ~effectPending
    /\ step = "form"
    /\ ~CreateDisabled
    /\ Trim(workspaceName) # <<>>
    /\ Len(calls) < MaxOutstanding
    /\ isSubmitting' = TRUE
    /\ error' = NoText
    /\ calls' = Append(calls, [kind |-> "create",
                               payload |-> Spread(SlugPayload(workspaceSlug),
                                                  [name |-> Trim(workspaceName)])])
    /\ lastEvent' = [op |-> "handleCreateWorkspace"]
    /\ UNCHANGED offWizard
    /\ UNCHANGED <<user, stored, step, displayName, workspaceName, workspaceSlug,
                   slugEdited, createdWorkspace, isFinishing, effectPending,
                   location>>

\* CreateFailed without the finally block
CreateFailed_NoFinally(i, err) ==
    /\ error' = ErrorMessage(err, CreateFallback)
    /\ calls' = Remove(calls, i)
    /\ lastEvent' = [op |-> "createReject", err |-> err]
    /\ UNCHANGED offWizard
    /\ UNCHANGED <<user, stored, step, displayName, workspaceName, workspaceSlug,
                   slugEdited, createdWorkspace, isSubmitting, isFinishing,
                   effectPending, location>>

\* the catch and finally blocks of handleCreateWorkspace
CreateFailed(i, err) ==
    /\ error' = ErrorMessage(err, CreateFallback)
    /\ isSubmitting' = FALSE
    /\ calls' = Remove(calls, i)
    /\ lastEvent' = [op |-> "createReject", err |-> err]
    /\ UNCHANGED offWizard
    /\ UNCHANGED <<user, stored, step, displayName, workspaceName, workspaceSlug,
                   slugEdited, createdWorkspace, isFinishing, effectPending,
                   location>>

\* axios.post resolved with a response body: createWorkspace returns or throws,
\* then the try block after the await (or the catch), finally
CreateResolve(i, body) ==
    /\ i \in DOMAIN calls
    /\ calls[i].kind = "create"
    /\ LET r == createWorkspace(body)
       IN  IF r.ok
           THEN /\ createdWorkspace' = r.value
                /\ step' = "success"
                /\ isSubmitting' = FALSE
                /\ calls' = Remove(calls, i)
                /\ lastEvent' = [op |-> "createResolve"]
                /\ UNCHANGED offWizard
                /\ UNCHANGED <<user, stored, displayName, workspaceName,
                               workspaceSlug, slugEdited, isFinishing, error,
                               effectPending, location>>
           ELSE CreateFailed(i, r.err)

\* axios.post rejected: catch, finally
CreateReject(i, err) ==
    /\ i \in DOMAIN calls
    /\ calls[i].kind = "create"
    /\ CreateFailed(i, err)

\* (user?.role || '').toLowerCase()
RoleOf(u) == IF u # Null /\ "role" \in DOMAIN u THEN ToLowerCase(u.role) ELSE <<>>

Destination(role) ==
    IF role = <<"a", "d", "m", "i", "n">> \/ role = R_Owner
    THEN AdminDashboard
    ELSE UserDashboard

\* handleFinish up to its await; the button is disabled={isFinishing}. The
\* continuation reads the user of the render the click happened in.
handleFinish ==
    /\ Mounted /\ ~effectPending
    /\ step = "success"
    /\ ~isFinishing
    /\ Len(calls) < MaxOutstanding
    /\ isFinishing' = TRUE
    /\ calls' = Append(calls, [kind |-> "refresh", role |-> RoleOf(user),
                               held |-> user])
    /\ lastEvent' = [op |-> "handleFinish"]
    /\ UNCHANGED offWizard
    /\ UNCHANGED <<user, stored, step, displayName, workspaceName, workspaceSlug,
                   slugEdited, createdWorkspace, isSubmitting, error,
                   effectPending, location>>

\* RefreshResolve routing by the role of the fetched identity
RefreshResolve_FreshRole(i, fetched) ==
    /\ i \in DOMAIN calls
    /\ calls[i].kind = "refresh"
    /\ user' = fetched
    /\ location' = Destination(RoleOf(fetched))
    /\ effectPending' = FALSE
    /\ isFinishing' = FALSE
    /\ calls' = Remove(calls, i)
    /\ lastEvent' = [op |-> "refreshResolve"]
    /\ UNCHANGED offWizard
    /\ UNCHANGED <<stored, step, displayName, workspaceName, workspaceSlug,
                   slugEdited, createdWorkspace, isSubmitting, error>>

\* refreshUser resolved: the auth context has published the fetched identity,
\* then navigate(...) leaves the wizard, finally
RefreshResolve(i, fetched) ==
    /\ i \in DOMAIN calls
    /\ calls[i].kind = "refresh"
    /\ user' = fetched
    /\ location' = Destination(calls[i].role)
    /\ effectPending' = FALSE
    /\ isFinishing' = FALSE
    /\ calls' = Remove(calls, i)
    /\ lastEvent' = [op |-> "refreshResolve"]
    /\ UNCHANGED offWizard
    /\ UNCHANGED <<stored, step, displayName, workspaceName, workspaceSlug,
                   slugEdited, createdWorkspace, isSubmitting, error>>

\* refreshUser rejected: catch, finally
RefreshReject(i) ==
    /\ i \in DOMAIN calls
    /\ calls[i].kind = "refresh"
    /\ location' = UserDashboard
    /\ effectPending' = FALSE
    /\ isFinishing' = FALSE
    /\ calls' = Remove(calls, i)
    /\ lastEvent' = [op |-> "refreshReject"]
    /\ UNCHANGED offWizard
    /\ UNCHANGED <<user, stored, step, displayName, workspaceName, workspaceSlug,
                   slugEdited, createdWorkspace, isSubmitting, error>>

\* handleSignOut up to its await; the button is rendered on every step and is
\* never disabled
handleSignOut ==
    /\ Mounted /\ ~effectPending
    /\ Len(calls) < MaxOutstanding
    /\ calls' = Append(calls, [kind |-> "signOut"])
    /\ lastEvent' = [op |-> "handleSignOut"]
    /\ UNCHANGED offWizard
    /\ UNCHANGED <<user, stored, step, displayName, workspaceName, workspaceSlug,
                   slugEdited, createdWorkspace, isSubmitting, isFinishing,
                   error, effectPending, location>>

\* signOut resolved: the auth context has dropped the identity and its
\* cache, then navigate('/login')
SignOutResolve(i) ==
    /\ i \in DOMAIN calls
    /\ calls[i].kind = "signOut"
    /\ user' = Null
    /\ stored' = Null
    /\ location' = Login
    /\ effectPending' = FALSE
    /\ calls' = Remove(calls, i)
    /\ lastEvent' = [op |-> "signOutResolve"]
    /\ UNCHANGED offWizard
    /\ UNCHANGED <<step, displayName, workspaceName, workspaceSlug, slugEdited,
                   createdWorkspace, isSubmitting, isFinishing, error>>

\* signOut rejected: the rejection leaves handleSignOut at the await, there
\* is no catch
SignOutReject(i) ==
    /\ i \in DOMAIN calls
    /\ calls[i].kind = "signOut"
    /\ calls' = Remove(calls, i)
    /\ lastEvent' = [op |-> "signOutReject"]
    /\ UNCHANGED offWizard
    /\ UNCHANGED <<user, stored, step, displayName, workspaceName, workspaceSlug,
                   slugEdited, createdWorkspace, isSubmitting, isFinishing,
                   error, effectPending, location>>

Next ==
    \/ RunEffect
    \/ \E u \in Identities : IdentityUpdate(u)
    \/ \E v \in DisplayNames : ChangeDisplayName(v)
    \/ \E v \in WorkspaceNames : handleNameChange(v)
    \/ \E v \in SlugInputs : handleSlugChange(v)
    \/ handleSaveName
    \/ \E i \in 1..MaxOutstanding, r \in SaveResponses : SaveResolve(i, r)
    \/ \E i \in 1..MaxOutstanding, e \in Errors : SaveReject(i, e)
    \/ handleCreateWorkspace
    \/ \E i \in 1..MaxOutstanding, b \in CreateBodies : CreateResolve(i, b)
    \/ \E i \in 1..MaxOutstanding, e \in Errors : CreateReject(i, e)
    \/ handleFinish
    \/ \E i \in 1..MaxOutstanding, u \in Identities : RefreshResolve(i, u)
    \/ \E i \in 1..MaxOutstanding : RefreshReject(i)

Spec == Init /\ [][Next]_vars

\* A network that eventually answers every save and create call, and React
\* running the effects of a committed render.
Answer ==
    \/ \E i \in 1..MaxOutstanding, r \in SaveResponses : SaveResolve(i, r)
    \/ \E i \in 1..MaxOutstanding, e \in Errors : SaveReject(i, e)
    \/ \E i \in 1..MaxOutstanding, b \in CreateBodies : CreateResolve(i, b)
    \/ \E i \in 1..MaxOutstanding, e \in Errors : CreateReject(i, e)

FairSpec == Spec /\ WF_vars(Answer) /\ WF_vars(RunEffect)

\* ------------------------------------------------------- leaving the wizard

\* one rejection of a call
SomeError == [serverMsg |-> NoText, message |-> "Network Error"]

\* every handler and callback of the wizard, sign-out included, with one
\* value for each text field and one rejection
ExitNext ==
    \/ RunEffect
    \/ \E u \in Identities : IdentityUpdate(u)
    \/ ChangeDisplayName(T_Carlos)
    \/ handleNameChange(T_SaoFC)
    \/ handleSlugChange(T_MeuSlug)
    \/ handleSaveName
    \/ \E i \in 1..MaxOutstanding, r \in SaveResponses : SaveResolve(i, r)
    \/ \E i \in 1..MaxOutstanding : SaveReject(i, SomeError)
    \/ handleCreateWorkspace
    \/ \E i \in 1..MaxOutstanding : CreateResolve(i, W1)
    \/ \E i \in 1..MaxOutstanding : CreateReject(i, SomeError)
    \/ handleFinish
    \/ \E i \in 1..MaxOutstanding, u \in Identities : RefreshResolve(i, u)
    \/ \E i \in 1..MaxOutstanding : RefreshReject(i)
    \/ handleSignOut
    \/ \E i \in 1..MaxOutstanding : SignOutResolve(i)
    \/ \E i \in 1..MaxOutstanding : SignOutReject(i)

ExitSpec == Init /\ [][ExitNext]_vars

\* every call is eventually settled, and React runs the effects of a
\* committed render
Settled ==
    \/ \E i \in 1..MaxOutstanding, r \in SaveResponses : SaveResolve(i, r)
    \/ \E i \in 1..MaxOutstanding : SaveReject(i, SomeError)
    \/ \E i \in 1..MaxOutstanding : CreateResolve(i, W1)
    \/ \E i \in 1..MaxOutstanding : CreateReject(i, SomeError)
    \/ \E i \in 1..MaxOutstanding, u \in Identities : RefreshResolve(i, u)
    \/ \E i \in 1..MaxOutstanding : RefreshReject(i)

SignOutSettled ==
    \/ \E i \in 1..MaxOutstanding : SignOutResolve(i)
    \/ \E i \in 1..MaxOutstanding : SignOutReject(i)

ExitFairSpec ==
    ExitSpec /\ WF_vars(Settled) /\ WF_vars(SignOutSettled) /\ WF_vars(RunEffect)

\* ------------------------------------------- functions evaluated on their own

T_Abc == <<"a", "b", "c">>
T_PeladaFc == <<"p", "e", "l", "a", "d", "a", "-", "f", "c">>

\* values of the CreatedWorkspace interface: id, name, slug and role are
\* strings, and the index signature admits further fields
CreatedWorkspaces ==
    { Spread(w, x) :
        w \in [t : {"obj"}, id : {T_Abc, T_W1}, name : {T_SaoFC, T_Pelada},
               slug : {<<>>, T_PeladaFc, T_Pelada}, role : {R_Owner, R_Admin}],
        x \in {EmptyObj, [t |-> "obj", plan |-> "free"]} }

\* a workspace that carries a server field named data
WithDataField(w) == Spread(w, [t |-> "obj", data |-> [t |-> "obj", plan |-> "free"]])

\* response.data of POST /workspaces for a workspace w: the comment of
\* createWorkspace names the two shapes, { data: workspace } and the workspace
ResponseBody(shape, w) ==
    IF shape = "envelope" THEN [t |-> "obj", data |-> w] ELSE w

\* Longest run of characters put after the prefix of a candidate name
MaxPhoneBody == 7

T_PhonePlus ==
    <<"+", "5", "5", " ", "1", "1", " ", "9", "1", "2", "3", "4", "-",
      "5", "6", "7", "8">>

\* every text of at most n characters over the alphabet
TextsUpTo(alphabet, n) == UNION {[1..k -> alphabet] : k \in 0..n}

\* names an identity may carry: the three of the product documentation, and
\* digits, hyphens and letters behind nothing, a plus sign or a blank
CandidateNames ==
    {T_PhonePlus, T_Phone, T_Maria, T_Blank, T_Carlos,
     <<"1", "2", "3", " ", "4", "5", "6", "\t">>, <<"(", "1", "1", ")", "2", "3", "4", "5">>}
    \cup {pre \o body : pre \in {<<>>, <<"+">>, <<" ">>},
                         body \in TextsUpTo({"1", "-", "x"}, MaxPhoneBody)}

\* Longest text given to toSlug besides the documented ones
MaxSlugText == 4

T_PeladaSexta ==
    <<"P", "e", "l", "a", "d", "a", " ", "d", "a", " ", "S", "e", "x", "t", "a", "!">>
T_SaoPauloFC ==
    <<"S", "a~", "o", " ", "P", "a", "u", "l", "o", " ", "F", "C">>

\* values of the name and slug fields
SlugTexts ==
    {T_PeladaSexta, T_SaoPauloFC, T_SaoFC, T_MeuSlug,
     <<"a", "U+0303", "o", "\t", "\t", "2">>, <<"A~", "_", "b", ".", " ", "-", " ", "c">>}
    \cup TextsUpTo({"a", "B", "a~", " ", "-", "!"}, MaxSlugText)

\* the wizard stays as constructed while a function is evaluated on its own
\* what tokenService.getAccessToken() may return: null, the empty string or a
\* token
Tokens == {Null, [t |-> "str", v |-> <<>>], [t |-> "str", v |-> T_Abc]}

\* token ? ... : ...
TokenTruthy(token) == token # Null /\ token.v # <<>>

BearerPrefix == <<"B", "e", "a", "r", "e", "r", " ">>

\* RequestHeaders without the Authorization spread
RequestHeaders_NeverBearer(token) == [ContentType |-> "application/json"]

\* headers: { 'Content-Type': ..., ...(token ? { Authorization: ... } : {}) }
RequestHeaders(token) ==
    IF TokenTruthy(token)
    THEN [ContentType |-> "application/json",
          Authorization |-> BearerPrefix \o token.v]
    ELSE [ContentType |-> "application/json"]

\* the request createWorkspace hands to the plain axios instance; the selected
\* workspace, which the shared client's middleware requires, is not read
CreateRequest(token, selected, payload) ==
    [method |-> "POST", url |-> "/workspaces", body |-> payload,
     headers |-> RequestHeaders(token)]

\* payloads of handleCreateWorkspace
CreatePayloads ==
    { [t |-> "obj", name |-> T_SaoFC],
      [t |-> "obj", name |-> T_SaoFC, slug |-> T_Pelada] }

FnInit ==
    /\ FreshWizard
    /\ CopyIdle
    /\ ChatIdle
    /\ user = Null
    /\ fnDone = FALSE
    /\ \/ /\ fnName = "bindCommand"
          /\ fnArg \in CreatedWorkspaces \cup {Null}
          /\ fnOut = <<>>
       \/ /\ fnName = "createWorkspace"
          /\ fnArg \in [shape : {"envelope", "bare"},
                        w : CreatedWorkspaces
                              \cup {WithDataField(w) : w \in CreatedWorkspaces}]
          /\ fnOut = Null
       \/ /\ fnName = "needsProfile"
          /\ fnArg \in {Null, EmptyObj}
                        \cup {[t |-> "obj", name |-> n] : n \in CandidateNames}
          /\ fnOut = FALSE
       \/ /\ fnName = "toSlug"
          /\ fnArg \in SlugTexts
          /\ fnOut = <<>>
       \/ /\ fnName = "createRequest"
          /\ fnArg \in [token : Tokens, selected : {Null, W1},
                        payload : CreatePayloads]
          /\ fnOut = Null

EvalBindCommand ==
    /\ fnName = "bindCommand"
    /\ ~fnDone
    /\ fnOut' = bindCommand(fnArg)
    /\ fnDone' = TRUE
    /\ UNCHANGED <<wizardVars, copyVars, chatVars, fnName, fnArg>>

EvalCreateWorkspace ==
    /\ fnName = "createWorkspace"
    /\ ~fnDone
    /\ fnOut' = createWorkspace(ResponseBody(fnArg.shape, fnArg.w))
    /\ fnDone' = TRUE
    /\ UNCHANGED <<wizardVars, copyVars, chatVars, fnName, fnArg>>

\* the negation of the condition under which the [user] effect skips the
\* profile step
EvalNeedsProfile ==
    /\ fnName = "needsProfile"
    /\ ~fnDone
    /\ fnOut' = ~NameUsable(fnArg)
    /\ fnDone' = TRUE
    /\ UNCHANGED <<wizardVars, copyVars, chatVars, fnName, fnArg>>

EvalToSlug ==
    /\ fnName = "toSlug"
    /\ ~fnDone
    /\ fnOut' = toSlug(fnArg)
    /\ fnDone' = TRUE
    /\ UNCHANGED <<wizardVars, copyVars, chatVars, fnName, fnArg>>

EvalCreateRequest ==
    /\ fnName = "createRequest"
    /\ ~fnDone
    /\ fnOut' = CreateRequest(fnArg.token, fnArg.selected, fnArg.payload)
    /\ fnDone' = TRUE
    /\ UNCHANGED <<wizardVars, copyVars, chatVars, fnName, fnArg>>

FnNext ==
    \/ EvalBindCommand
    \/ EvalToSlug
    \/ EvalNeedsProfile
    \/ EvalCreateWorkspace
    \/ EvalCreateRequest

FnSpec == FnInit /\ [][FnNext]_vars

\* --------------------------------------------------------- the copy action

W2 == [t |-> "obj", id |-> T_Abc, name |-> T_SaoFC, slug |-> <<>>, role |-> R_Owner]

Min(S) == CHOOSE x \in S : \A y \in S : x <= y

wizardState == <<user, stored, step, displayName, workspaceName, workspaceSlug,
                 slugEdited, createdWorkspace, isSubmitting, isFinishing, error,
                 effectPending, calls, location>>

\* handleCopyCommand up to its await; the button is rendered on the success
\* step only
handleCopyCommand ==
    /\ Mounted /\ ~effectPending
    /\ step = "success"
    /\ Len(writes) + Len(timers) + textareas < MaxCopies
    /\ writes' = Append(writes, bindCommand(createdWorkspace))
    /\ lastEvent' = [op |-> "handleCopyCommand"]
    /\ UNCHANGED <<wizardState, fnVars, chatVars, isCopied, clipboard, textareas, timers,
                   sinceCopy>>

\* setIsCopied(true); setTimeout(() => setIsCopied(false), 2500)
CopyFinished ==
    /\ isCopied' = TRUE
    /\ timers' = Append(timers, CopiedDelay)
    /\ sinceCopy' = 0

\* writeText resolved: the try block ends, then the two last statements
CopyWritten(i) ==
    /\ i \in DOMAIN writes
    /\ clipboard' = writes[i]
    /\ writes' = Remove(writes, i)
    /\ CopyFinished
    /\ lastEvent' = [op |-> "copyWritten"]
    /\ UNCHANGED <<wizardState, fnVars, chatVars, textareas>>

\* what document.execCommand('copy') may do: copy and return true, return
\* false (command unsupported or disabled), or raise (engines that raise
\* instead of returning false, or that no longer have the method)
CopyCommandOutcomes == {"copied", "refused", "threw"}

\* writeText rejected: the catch block appends a textarea and runs
\* document.execCommand('copy'). When that returns, the textarea is removed
\* and the two last statements run; when it raises, the exception leaves the
\* handler from inside the catch block and nothing after it runs
CopyFallback(i, outcome) ==
    /\ i \in DOMAIN writes
    /\ writes' = Remove(writes, i)
    /\ clipboard' = IF outcome = "copied" THEN writes[i] ELSE clipboard
    /\ IF outcome = "threw"
       THEN /\ textareas' = textareas + 1
            /\ UNCHANGED <<isCopied, timers, sinceCopy>>
       ELSE /\ textareas' = (textareas + 1) - 1
            /\ CopyFinished
    /\ lastEvent' = [op |-> "copyFallback", outcome |-> outcome]
    /\ UNCHANGED <<wizardState, fnVars, chatVars>>

\* the oldest timeout has run out: () => setIsCopied(false)
TimerFire ==
    /\ timers # <<>>
    /\ timers[1] <= 0
    /\ isCopied' = FALSE
    /\ timers' = Tail(timers)
    /\ lastEvent' = [op |-> "timerFire"]
    /\ UNCHANGED <<wizardState, fnVars, chatVars, writes, clipboard, textareas, sinceCopy>>

\* time passes, no further than to the next timeout; a timeout that has run
\* out runs before more time passes
Tick ==
    /\ \A i \in DOMAIN timers : timers[i] > 0
    /\ timers # <<>> \/ sinceCopy < CopiedDelay
    /\ LET d == Min({TickMs} \cup Range(timers))
       IN  /\ timers' = [i \in DOMAIN timers |-> timers[i] - d]
           /\ sinceCopy' = Min({sinceCopy + d, CopiedDelay})
    /\ UNCHANGED <<wizardVars, fnVars, chatVars, isCopied, writes, clipboard, textareas>>

\* the wizard of a named identity from its construction to the success step,
\* and the copy action on that step
CopyInit ==
    /\ Init
    /\ user = [t |-> "obj", id |-> "u1", name |-> T_Maria, role |-> R_Admin]

CopyNext ==
    \/ RunEffect
    \/ handleNameChange(T_SaoFC)
    \/ handleCreateWorkspace
    \/ \E b \in {W1, W2} : CreateResolve(1, b)
    \/ handleCopyCommand
    \/ \E i \in 1..MaxCopies : CopyWritten(i)
    \/ \E i \in 1..MaxCopies, o \in CopyCommandOutcomes : CopyFallback(i, o)
    \/ TimerFire
    \/ Tick

CopySpec == CopyInit /\ [][CopyNext]_vars

\* ------------------------------------------------- the ManageChats switch

ChatIds == {"c1", "c2"}

ChatStatuses == {"ACTIVE", "INACTIVE"}

\* requests of the status switch that may be in flight together
MaxToggles == 2

\* chat.status === 'ACTIVE' ? 'INACTIVE' : 'ACTIVE'
Flipped(status) == IF status = "ACTIVE" THEN "INACTIVE" ELSE "ACTIVE"

\* prev.map(c => c.id === id ? { ...c, status } : c)
WithStatus(list, id, status) == [list EXCEPT ![id] = status]

\* handleToggleStatus(chat) up to its await: chat is the element of the list
\* the switch was rendered from
handleToggleStatus(id) ==
    /\ id \in DOMAIN chats
    /\ Len(toggles) < MaxToggles
    /\ LET newStatus == Flipped(chats[id])
       IN  /\ chats' = WithStatus(chats, id, newStatus)
           /\ toggles' = Append(toggles, [id |-> id, status |-> chats[id],
                                          newStatus |-> newStatus])
           /\ chatEvent' = [op |-> "handleToggleStatus", id |-> id,
                            status |-> chats[id]]
    /\ UNCHANGED <<serverChats, wizardVars, fnVars, copyVars>>

\* activateChat / deactivateChat answered: the server holds the new status
ToggleResolve(i) ==
    /\ i \in DOMAIN toggles
    /\ serverChats' = WithStatus(serverChats, toggles[i].id, toggles[i].newStatus)
    /\ toggles' = Remove(toggles, i)
    /\ chatEvent' = [op |-> "toggleResolve", id |-> toggles[i].id,
                     status |-> toggles[i].status]
    /\ UNCHANGED <<chats, wizardVars, fnVars, copyVars>>

\* the request failed: the catch block puts back the captured chat.status
ToggleReject(i) ==
    /\ i \in DOMAIN toggles
    /\ chats' = WithStatus(chats, toggles[i].id, toggles[i].status)
    /\ toggles' = Remove(toggles, i)
    /\ chatEvent' = [op |-> "toggleReject", id |-> toggles[i].id,
                     status |-> toggles[i].status]
    /\ UNCHANGED <<serverChats, wizardVars, fnVars, copyVars>>

\* loadChats has shown the list the server holds
ChatInit ==
    /\ FreshWizard
    /\ user = Null
    /\ FnIdle
    /\ CopyIdle
    /\ serverChats \in [ChatIds -> ChatStatuses]
    /\ chats = serverChats
    /\ toggles = <<>>
    /\ chatEvent = [op |-> "loadChats"]

ChatNext ==
    \/ \E id \in ChatIds : handleToggleStatus(id)
    \/ \E i \in 1..MaxToggles : ToggleResolve(i)
    \/ \E i \in 1..MaxToggles : ToggleReject(i)

ChatSpec == ChatInit /\ [][ChatNext]_vars

\* ------------------------------------------------------------------ claims

HasNonSpace(s) == \E i \in DOMAIN s : s[i] \notin WhiteSpace

Outstanding(kinds) == {i \in DOMAIN calls : calls[i].kind \in kinds}

\* this step issued a call of the given kind
Issued(kind) ==
    /\ Len(calls') = Len(calls) + 1
    /\ calls'[Len(calls')].kind = kind

\* C1: in every reachable state, step = success implies that createdWorkspace
\* is non-null.
C1_SuccessHasWorkspace == step = "success" => createdWorkspace # Null

C1_Witness ==
    /\ lastEvent.op = "createResolve"
    /\ step = "success"
    /\ createdWorkspace = W1

\* C2: once step is success, no later event changes it to profile or form.
C2_SuccessIsTerminal == [][step = "success" => step' = "success"]_vars

\* C3: in every reachable state, the first one after mount included, the
\* active step is profile only if the identity needs the profile step.
C3_ProfileOnlyIfNeeded == step = "profile" => ~NameUsable(user)

\* C4 as stated: after the initial step has been determined (the effect of the
\* mount has run), the step changes from profile to form only by a name save
\* that succeeded, and a save is issued only for a non-blank display name.
C4_OnlySaveLeavesProfile ==
    [][/\ (step = "profile" /\ step' = "form" /\ lastEvent.op # "mount")
             => lastEvent'.op = "saveResolve"
       /\ Issued("save") => HasNonSpace(displayName)]_vars

\* C4 as amended: the step changes from profile to form only by a name save
\* that succeeded or by the [user] effect running while the published identity
\* has a usable name; a save is issued only for a non-blank display name.
C4_SaveOrEffectLeavesProfile ==
    [][/\ (step = "profile" /\ step' = "form")
             => \/ lastEvent'.op = "saveResolve"
                \/ lastEvent'.op = "effect" /\ NameUsable(user)
       /\ Issued("save") => HasNonSpace(displayName)]_vars

C4_Witness ==
    /\ lastEvent.op = "saveResolve"
    /\ step = "form"
    /\ user.name = Trim(T_Carlos)

\* C5: the step becomes success only from form and only by a workspace
\* creation that succeeded; a creation request is issued only when the
\* workspace name has a non-whitespace character, and carries the trimmed name.
C5_OnlyCreateReachesSuccess ==
    [][/\ (step # "success" /\ step' = "success")
             => step = "form" /\ lastEvent'.op = "createResolve"
       /\ Issued("create")
             => /\ HasNonSpace(workspaceName)
                /\ calls'[Len(calls')].payload.name = Trim(workspaceName)]_vars

C5_Witness ==
    /\ lastEvent.op = "createResolve"
    /\ step = "success"
    /\ workspaceName = T_SaoFC

\* C6: at most one name-save or workspace-create call is outstanding.
C6_OneCallOutstanding == Cardinality(Outstanding({"save", "create"})) <= 1

C6_Witness ==
    /\ Cardinality(Outstanding({"create"})) = 1
    /\ lastEvent.op = "effect"
    /\ isSubmitting

RejectFallback(op) == IF op = "saveReject" THEN SaveFallback ELSE CreateFallback

\* C7 as stated: when a workspace creation rejects, the wizard is on form,
\* createdWorkspace is null, the error shown is the server-supplied message
\* (when the server supplied one), and the draft (name, slug, slug mode) is
\* what it was before.
C7_RejectKeepsDraft ==
    [][lastEvent'.op = "createReject"
          => /\ step' = "form"
             /\ createdWorkspace' = Null
             /\ Truthy(lastEvent'.err.serverMsg)
                   => error' = lastEvent'.err.serverMsg
             /\ UNCHANGED <<workspaceName, workspaceSlug, slugEdited>>]_vars

\* C8 as stated: when the name save rejects, the step is profile afterwards,
\* the typed display name is unchanged, an error message is set, and neither
\* the identity cache nor the published identity is modified.
C8_RejectStaysProfile ==
    [][lastEvent'.op = "saveReject"
          => /\ step' = "profile"
             /\ displayName' = displayName
             /\ error' # NoText
             /\ UNCHANGED <<stored, user>>]_vars

\* C8 as amended: when the name save rejects, the step is not changed by the
\* rejection and is not success, the typed display name is unchanged, a
\* non-empty error message is set, and neither the identity cache nor the
\* published identity is modified.
C8_RejectKeepsStep ==
    [][lastEvent'.op = "saveReject"
          => /\ step' = step
             /\ step' \in {"profile", "form"}
             /\ displayName' = displayName
             /\ Truthy(error')
             /\ UNCHANGED <<stored, user>>]_vars

C8_Witness ==
    /\ lastEvent.op = "saveReject"
    /\ step = "profile"
    /\ displayName = T_Carlos
    /\ error = "nome ja em uso"

\* C9 as stated: the error displayed after a failed save or create is the
\* server-supplied message when there is one, and otherwise the generic
\* fallback text of that step.
C9_ServerMessageOrFallback ==
    [][lastEvent'.op \in {"saveReject", "createReject"}
          => error' = IF Truthy(lastEvent'.err.serverMsg)
                      THEN lastEvent'.err.serverMsg
                      ELSE RejectFallback(lastEvent'.op)]_vars

\* C9 as amended: the error displayed after a failed save or create is the
\* server-supplied message when it is present and non-empty, otherwise the
\* error's own message when that is present and non-empty, and otherwise the
\* generic fallback text of that step.
C9_ServerThenOwnThenFallback ==
    [][lastEvent'.op \in {"saveReject", "createReject"}
          => error' = IF Truthy(lastEvent'.err.serverMsg)
                      THEN lastEvent'.err.serverMsg
                      ELSE IF Truthy(lastEvent'.err.message)
                           THEN lastEvent'.err.message
                           ELSE RejectFallback(lastEvent'.op)]_vars

C9_Witness ==
    /\ lastEvent.op = "createReject"
    /\ lastEvent.err.serverMsg = NoText
    /\ error = "Network Error"

\* C10: isSubmitting is true exactly while a name-save or workspace-creation
\* call is outstanding, and under a network that eventually answers it
\* eventually is false again.
C10_SubmittingWhileOutstanding ==
    /\ [](isSubmitting <=> Outstanding({"save", "create"}) # {})
    /\ isSubmitting ~> ~isSubmitting

C10_Witness ==
    /\ lastEvent.op = "createReject"
    /\ ~isSubmitting
    /\ Outstanding({"save", "create"}) = {}

\* C11: the slug latch is one-way: once the slug has been edited directly,
\* no later edit of the workspace name changes the slug, and slugEdited never
\* goes from TRUE back to FALSE.
C11_SlugLatchOneWay ==
    [][slugEdited
          => /\ slugEdited'
             /\ (lastEvent'.op = "handleNameChange"
                    => workspaceSlug' = workspaceSlug)]_vars

C11_Witness ==
    /\ lastEvent.op = "handleNameChange"
    /\ slugEdited
    /\ workspaceName = T_SaoFC
    /\ workspaceSlug = <<"m", "e", "u", "-", "1">>

\* C12: in every reachable state in which the slug has not been edited
\* directly, the draft slug is the slug derived from the draft name, starting
\* from the empty draft.
C12_SlugFollowsName == ~slugEdited => workspaceSlug = toSlug(workspaceName)

C12_Witness ==
    /\ lastEvent.op = "handleNameChange"
    /\ ~slugEdited
    /\ workspaceName = T_SaoFC
    /\ workspaceSlug = <<"s", "a", "o", "-", "f", "c">>

\* C13: the bind command is a pure function of the created workspace: it is
\* exactly "/bind " followed by the workspace slug, or by the workspace id when
\* the slug is empty; {slug: "pelada-fc", id: "abc"} gives "/bind pelada-fc"
\* and {slug: "", id: "abc"} gives "/bind abc".
C13_BindCommandSlugOrId ==
    fnName = "bindCommand" /\ fnDone /\ fnArg # Null
        => /\ Len(fnOut) >= 6
           /\ SubSeq(fnOut, 1, 6) = <<"/", "b", "i", "n", "d", " ">>
           /\ SubSeq(fnOut, 7, Len(fnOut))
                 = IF fnArg.slug = <<>> THEN fnArg.id ELSE fnArg.slug
           /\ (fnArg.slug = T_PeladaFc /\ fnArg.id = T_Abc
                 => fnOut = <<"/", "b", "i", "n", "d", " ",
                              "p", "e", "l", "a", "d", "a", "-", "f", "c">>)
           /\ (fnArg.slug = <<>> /\ fnArg.id = T_Abc
                 => fnOut = <<"/", "b", "i", "n", "d", " ", "a", "b", "c">>)

C13_Witness ==
    /\ fnName = "bindCommand" /\ fnDone
    /\ fnArg # Null
    /\ fnArg.slug = <<>>
    /\ fnArg.id = T_Abc
    /\ fnOut = <<"/", "b", "i", "n", "d", " ", "a", "b", "c">>

\* C14: for every workspace object W, one carrying additional server fields
\* included, createWorkspace returns W both when the response body is
\* {data: W} and when it is W itself.
C14_BothShapesYieldWorkspace ==
    fnName = "createWorkspace" /\ fnDone
        => fnOut.ok /\ fnOut.value = fnArg.w

\* the own properties of a value that is spread into an object literal
Fields(x) == IF x = Null THEN {} ELSE DOMAIN x \ {"t"}

\* C15: after a successful name save the identity written to the local cache
\* and the identity published to the application are the same merged record:
\* each field takes the server response's value when the response has that
\* field and the cached snapshot's value otherwise, except name, which is the
\* display name the user submitted.
C15_MergedIdentity ==
    [][lastEvent'.op = "saveResolve"
          => /\ stored' = user'
             /\ user' # Null
             /\ Fields(user')
                   = Fields(stored) \cup Fields(lastEvent'.resp) \cup {"name"}
             /\ user'.name = Trim(displayName)
             /\ \A f \in Fields(user') \ {"name"} :
                   user'[f] = IF f \in Fields(lastEvent'.resp)
                              THEN lastEvent'.resp[f]
                              ELSE stored[f]]_vars

C15_Witness ==
    /\ lastEvent.op = "saveResolve"
    /\ lastEvent.resp # Null
    /\ stored = user
    /\ user = [t |-> "obj", id |-> "u1", name |-> <<"C", "a", "r", "l", "o", "s">>,
               role |-> R_Admin, phone |-> T_Phone]

\* t without its leading and trailing white space
Trimmed(t) ==
    LET ix == {i \in DOMAIN t : t[i] \notin WhiteSpace}
    IN  IF ix = {} THEN <<>>
        ELSE SubSeq(t, CHOOSE i \in ix : \A j \in ix : i <= j,
                       CHOOSE i \in ix : \A j \in ix : j <= i)

\* the phone shape: an optional leading plus sign, a digit, then six or more
\* digits, spaces, hyphens, parentheses or dots
PhoneShape(t) ==
    \E k \in {0, 1} :
        /\ k = 1 => (Len(t) >= 1 /\ t[1] = "+")
        /\ Len(t) >= k + 7
        /\ t[k + 1] \in Digit
        /\ \A i \in (k + 2)..Len(t) :
              t[i] \in Digit \cup WhiteSpace \cup {"-", "(", ")", "."}

\* C16: the profile step is reported as needed exactly when the identity has
\* no name, or a name that is blank after trimming, or a name whose trimmed
\* text matches the phone shape; it is needed for "+55 11 91234-5678" and for
\* "11991234567", and not needed for "Maria Silva".
C16_NeedsProfileExactly ==
    fnName = "needsProfile" /\ fnDone
        => LET named == fnArg # Null /\ "name" \in DOMAIN fnArg
               n == IF named THEN Trimmed(fnArg.name) ELSE <<>>
           IN  /\ fnOut <=> (~named \/ n = <<>> \/ PhoneShape(n))
               /\ named /\ fnArg.name = T_PhonePlus => fnOut
               /\ named /\ fnArg.name = T_Phone => fnOut
               /\ named /\ fnArg.name = T_Maria => ~fnOut

C16_Witness ==
    /\ fnName = "needsProfile" /\ fnDone
    /\ fnArg = [t |-> "obj", name |-> T_PhonePlus]
    /\ fnOut

\* a letter without its case and without its diacritic
BaseLetter(c) ==
    IF c \in {"a~", "A~"} THEN "a"
    ELSE IF c \in Range(UpperAZ)
         THEN LowerAZ[CHOOSE i \in DOMAIN UpperAZ : UpperAZ[i] = c]
         ELSE c

IsLetterOrDigit(c) ==
    c \in Range(LowerAZ) \cup Range(UpperAZ) \cup Digit \cup {"a~", "A~"}

RECURSIVE TrimHyphens(_)
TrimHyphens(s) ==
    IF s # <<>> /\ Head(s) = "-" THEN TrimHyphens(Tail(s))
    ELSE IF s # <<>> /\ s[Len(s)] = "-" THEN TrimHyphens(SubSeq(s, 1, Len(s) - 1))
         ELSE s

\* slugify as C17 describes it: letters lowercased and without diacritics,
\* every other character but white space replaced by a hyphen, white space
\* runs collapsed to a single hyphen, the result trimmed. The trim is read as
\* removing leading and trailing white space and hyphens, the reading under
\* which the description yields the two documented results.
SlugifyAsDescribed(x) ==
    LET unmarked == SelectSeq(x, LAMBDA c : c \notin CombiningMarks)
        replaced == [i \in DOMAIN unmarked |->
                        IF IsLetterOrDigit(unmarked[i]) THEN BaseLetter(unmarked[i])
                        ELSE IF unmarked[i] \in WhiteSpace THEN " "
                        ELSE "-"]
        spaced == [i \in DOMAIN replaced |->
                        IF replaced[i] = " " THEN "-" ELSE replaced[i]]
        runs == {i \in DOMAIN replaced :
                    replaced[i] = " " /\ i > 1 /\ replaced[i - 1] = " "}
        collapsed == SelectSeq([i \in DOMAIN spaced |->
                                    IF i \in runs THEN "" ELSE spaced[i]],
                               LAMBDA c : c # "")
    IN  TrimHyphens(collapsed)

\* C17 as stated: slugify lowercases its input, strips diacritics, replaces
\* every non-alphanumeric character by a hyphen, collapses white space runs to
\* a single hyphen and trims the result.
C17_ReplacesByHyphen ==
    fnName = "toSlug" /\ fnDone => fnOut = SlugifyAsDescribed(fnArg)

\* one pass over the text: letters and digits are kept as base letters,
\* hyphens are kept, white space leaves a gap that becomes one hyphen before
\* the next kept character, every other character is dropped
RECURSIVE SlugPass(_, _, _)
SlugPass(s, acc, gap) ==
    IF s = <<>> THEN acc
    ELSE LET c == Head(s)
         IN  IF c \in WhiteSpace
             THEN SlugPass(Tail(s), acc, acc # <<>>)
             ELSE IF IsLetterOrDigit(c) \/ c = "-"
                  THEN SlugPass(Tail(s),
                                acc \o (IF gap THEN <<"-">> ELSE <<>>)
                                    \o <<BaseLetter(c)>>,
                                FALSE)
                  ELSE SlugPass(Tail(s), acc, gap)

\* C17 as amended: slugify lowercases its input, strips diacritics, deletes
\* every character other than a-z, 0-9, white space and hyphen, trims leading
\* and trailing white space and replaces each remaining white space run by a
\* single hyphen; slugify("Pelada da Sexta!") = "pelada-da-sexta" and
\* slugify("Sao Paulo FC" with a tilde on the a) = "sao-paulo-fc".
C17_DeletesThenHyphenates ==
    fnName = "toSlug" /\ fnDone
        => /\ fnOut = SlugPass(fnArg, <<>>, FALSE)
           /\ fnArg = T_PeladaSexta
                 => fnOut = <<"p", "e", "l", "a", "d", "a", "-", "d", "a", "-",
                              "s", "e", "x", "t", "a">>
           /\ fnArg = T_SaoPauloFC
                 => fnOut = <<"s", "a", "o", "-", "p", "a", "u", "l", "o", "-",
                              "f", "c">>

C17_Witness ==
    /\ fnName = "toSlug" /\ fnDone
    /\ fnArg = <<"a", "!", "B", " ">>
    /\ fnOut = <<"a", "b">>

\* x with every diacritic removed
Unaccent(x) ==
    LET unmarked == SelectSeq(x, LAMBDA c : c \notin CombiningMarks)
    IN  [i \in DOMAIN unmarked |->
            IF unmarked[i] = "a~" THEN "a"
            ELSE IF unmarked[i] = "A~" THEN "A" ELSE unmarked[i]]

\* C18: slugify is idempotent and diacritic-insensitive: for every text x,
\* slugify(slugify(x)) = slugify(x), and slugify(x) = slugify(x with its
\* diacritics removed).
C18_IdempotentUnaccented ==
    fnName = "toSlug" /\ fnDone
        => /\ toSlug(fnOut) = fnOut
           /\ toSlug(Unaccent(fnArg)) = fnOut

C18_Witness ==
    /\ fnName = "toSlug" /\ fnDone
    /\ fnArg = T_SaoPauloFC
    /\ Unaccent(fnArg) # fnArg
    /\ fnOut = <<"s", "a", "o", "-", "p", "a", "u", "l", "o", "-", "f", "c">>
    /\ fnOut # fnArg

\* C19: in every reachable state of the form step, whether the slug was
\* derived from the name or typed by the user, the draft slug consists only of
\* lowercase ASCII letters, digits and hyphens and is at most 40 characters
\* long, the name being at most 60 characters long.
C19_SlugShapeAndLength ==
    step = "form"
        => /\ Len(workspaceName) <= 60
           /\ \A i \in DOMAIN workspaceSlug :
                 workspaceSlug[i] \in Range(LowerAZ) \cup Digit \cup {"-"}
           /\ Len(workspaceSlug) <= 40

\* C20: every time the copy action is performed, the copied flag becomes true
\* and stays true for the full 2.5 seconds that follow that copy, and it is
\* true only while a revert is scheduled, so that it reverts by itself; it
\* never reverts earlier, also when the copy action is triggered again while
\* a previous acknowledgment is still pending.
C20_CopiedForFullDelay ==
    /\ sinceCopy < 2500 => isCopied
    /\ isCopied => timers # <<>>

\* C21: whichever path the copy action takes (the platform clipboard write,
\* or the fallback with a transient textarea, a fallback whose copy command
\* fails included), when the action has finished no transient element
\* remains attached to the document and the copied flag has been set.
C21_CopyLeavesNoElement ==
    [][Len(writes') < Len(writes) => textareas' = 0 /\ isCopied']_vars

\* the identity's role, compared without regard to case, is admin or owner
IsPrivileged(u) ==
    /\ u # Null
    /\ "role" \in DOMAIN u
    /\ ToLowerCase(u.role) \in {<<"a", "d", "m", "i", "n">>, <<"o", "w", "n", "e", "r">>}

\* this step is the callback of a call of the given kind
SettledCall(op) == lastEvent'.op = op /\ Len(calls') < Len(calls)

\* C22: when the user confirms on the success step, an identity refresh is
\* attempted first and then exactly one navigation happens: if the refresh
\* succeeds, to the admin dashboard when the role of the identity (the one the
\* refresh delivered), compared case-insensitively, is admin or owner and to
\* the user dashboard otherwise; if the refresh fails, to the user dashboard.
C22_FinishRefreshesThenRoutes ==
    [][/\ SettledCall("refreshResolve")
            => /\ location = Wizard
               /\ location' = IF IsPrivileged(user')
                               THEN AdminDashboard ELSE UserDashboard
       /\ SettledCall("refreshReject")
            => location = Wizard /\ location' = UserDashboard
       /\ location' # location /\ location' \in {AdminDashboard, UserDashboard}
            => lastEvent'.op \in {"refreshResolve", "refreshReject"}]_vars

\* C23: from any step, and whether or not a save, create or finish call is
\* outstanding, triggering sign-out eventually exits the wizard to the login
\* route, also when the sign-out call itself fails.
C23_SignOutExits == Outstanding({"signOut"}) # {} ~> location = Login

\* C27: sign-out is final: once the sign-out action has navigated to the
\* login route, no callback of a call that was still outstanding later
\* navigates to a dashboard route or publishes an identity.
C27_SignOutIsFinal ==
    [][location = Login => location' = Login /\ (user' = user \/ user' = Null)]_vars

\* C29: the destination chosen by the finish action depends only on the role
\* of the identity the wizard held when the action was triggered: whatever
\* identity the refresh delivers, a successful refresh navigates to the
\* dashboard of the role held at the click.
C29_DestinationFromHeldRole ==
    [][SettledCall("refreshResolve")
          => \E i \in Outstanding({"refresh"}) :
                /\ calls' = Remove(calls, i)
                /\ location' = IF IsPrivileged(calls[i].held)
                                THEN AdminDashboard ELSE UserDashboard]_vars

C29_Witness ==
    /\ lastEvent.op = "refreshResolve"
    /\ IsPrivileged(user)
    /\ location = UserDashboard

\* the scenario's steps, one conjunct each: the first effect keeps an identity
\* with a phone-shaped name on profile; a name save that succeeded moves to
\* form; a submission with the slug untouched carries the trimmed name and
\* the slug of the name; a creation that succeeded moves to success, where
\* the command is the prefix followed by the returned slug
ScenarioSteps ==
    /\ (lastEvent.op = "mount" /\ user # Null /\ looksLikePhone(NameOf(user)))
          => step = "profile" /\ step' = "profile"
    /\ SettledCall("saveResolve") => step' = "form"
    /\ (Issued("create") /\ ~slugEdited)
          => LET sent == calls'[Len(calls')].payload
             IN  /\ sent.name = Trimmed(workspaceName)
                 /\ "slug" \in DOMAIN sent
                 /\ sent.slug = toSlug(workspaceName)
    /\ SettledCall("createResolve")
          => /\ step' = "success"
             /\ bindCommand(createdWorkspace') = BindPrefix \o createdWorkspace'.slug

\* the step only moves forward, one step at a time
ScenarioOrder ==
    step' # step => <<step, step'>> \in {<<"profile", "form">>, <<"form", "success">>}

\* C24: end-to-end order: for an identity whose name is a phone-shaped
\* placeholder the wizard opens on profile; a successful name save moves it to
\* form; submitting a workspace name with the slug untouched sends the trimmed
\* name together with slug = slugify(name); a successful response moves it to
\* success; the displayed command is "/bind " followed by the returned slug;
\* and the steps are visited in the order profile, form, success with none
\* skipped.
C24_EndToEndOrder == [][ScenarioSteps /\ ScenarioOrder]_vars

\* C26: within one wizard session at most one workspace-creation request ever
\* succeeds: after createdWorkspace has been set, no further creation request
\* is issued and none succeeds, under any sequence of user actions and
\* identity updates.
C26_OneCreationPerSession ==
    [][createdWorkspace # Null
          => ~Issued("create") /\ ~SettledCall("createResolve")]_vars

\* on form and on success the identity's name is usable
UsableOnceProfiled == step \in {"form", "success"} => NameUsable(user)

\* the display name a name save is issued with is not phone-shaped
AcceptsNoPlaceholder ==
    Issued("save") => ~PhoneShape(calls'[Len(calls')].name)

\* C28: whenever the wizard is on form or success, the identity's current name
\* is usable (non-blank and not phone-shaped); in particular the display name
\* accepted by the profile step is never itself a phone-shaped placeholder.
C28_ProfiledNameUsable == [](location = Wizard => UsableOnceProfiled) /\ [][AcceptsNoPlaceholder]_vars

\* C25: createWorkspace always issues the creation request, whether or not a
\* workspace is selected: the request is the POST of the payload to
\* /workspaces, it carries the Authorization header "Bearer " followed by the
\* token if and only if an access token is held, and it is issued without
\* that header when no token is held.
C25_BearerIffToken ==
    (fnName = "createRequest" /\ fnDone)
       => /\ fnOut.method = "POST" /\ fnOut.url = "/workspaces"
          /\ fnOut.body = fnArg.payload
          /\ "ContentType" \in DOMAIN fnOut.headers
          /\ IF fnArg.token # Null /\ Len(fnArg.token.v) > 0
             THEN /\ "Authorization" \in DOMAIN fnOut.headers
                  /\ fnOut.headers.Authorization = BearerPrefix \o fnArg.token.v
             ELSE "Authorization" \notin DOMAIN fnOut.headers

C25_Witness ==
    /\ fnName = "createRequest" /\ fnDone
    /\ fnArg.selected = Null
    /\ fnArg.token # Null
    /\ "Authorization" \in DOMAIN fnOut.headers

\* what one step of the switch does to the list shown: a failed request puts
\* back the status the chat had before that toggle, an answered one leaves
\* the list as it is, and no step touches another chat
ToggleEffect ==
    /\ chatEvent'.op = "toggleReject" /\ Len(toggles') < Len(toggles)
          => chats'[chatEvent'.id] = chatEvent'.status
    /\ chatEvent'.op = "toggleResolve" /\ Len(toggles') < Len(toggles)
          => chats' = chats
    /\ \A id \in ChatIds :
          chats'[id] # chats[id] => (chatEvent'.id = id /\ toggles' # toggles)

\* C30: ManageChats optimistic status toggle: a toggle whose request fails
\* restores the chat's status to the value it had before that toggle, a
\* toggle whose request succeeds leaves it flipped, other chats are unchanged
\* throughout, and for any interleaving of several toggles of the same chat
\* and their responses, once no request is outstanding the status shown for
\* each chat equals the status the server holds.
C30_ShownEqualsServer ==
    [](toggles = <<>> => chats = serverChats) /\ [][ToggleEffect]_vars

====
